---------------------------- MODULE Spec2Model ----------------------------
(***************************************************************************)
(* A model of git-reconstruct: the reverse object graph (src/lut.rs), its  *)
(* parallel build, the query engine, the streaming query loop and the      *)
(* cache handling (src/cli.rs) and the batch-query pipeline (src/find.rs). *)
(***************************************************************************)
EXTENDS Integers, Sequences, FiniteSets, TLC

(***************************************************************************)
(* Bounds of the model.                                                    *)
(***************************************************************************)
NCommits == 3
NTrees == 2
NBlobs == 2
MaxEntries == 2
MaxThreads == 2

(***************************************************************************)
(* Digests.  An Oid is a number; its residue modulo 4 is the kind of the   *)
(* object it names, so that the byte order of digests interleaves commits, *)
(* trees and blobs.                                                        *)
(***************************************************************************)
TreeOid(j) == 4 * j - 3
CommitOid(i) == 4 * i - 2
BlobOid(k) == 4 * k - 1
OtherOid == 4

TreeOids == {TreeOid(j) : j \in 1..NTrees}
CommitOids == {CommitOid(i) : i \in 1..NCommits}
BlobOids == {BlobOid(k) : k \in 1..NBlobs}
Oids == TreeOids \cup CommitOids \cup BlobOids \cup {OtherOid}
\* a digest no object of the repository has
UnknownOid == 4 * (NCommits + NTrees + NBlobs) + 3

NoTree == 0
None == -1

kind(oid) ==
    CASE oid % 4 = 1 -> "Tree"
      [] oid % 4 = 2 -> "Commit"
      [] oid % 4 = 3 -> "Blob"
      [] OTHER -> "Other"

SeqsUpTo(S, n) == UNION {[1..m -> S] : m \in 0..n}

\* the entries a tree may hold: blobs, a submodule entry, and trees of a
\* higher number (the forward graph is acyclic)
ChildrenOf(tree) == {t \in TreeOids : t > tree} \cup BlobOids \cup {OtherOid}

Repositories ==
    {e \in [TreeOids -> SeqsUpTo(Oids, MaxEntries)] :
        \A t \in TreeOids : \A p \in 1..Len(e[t]) : e[t][p] \in ChildrenOf(t)}

RECURSIVE SetToSortedSeq(_)
SetToSortedSeq(S) ==
    IF S = {} THEN <<>>
    ELSE LET m == CHOOSE x \in S : \A y \in S : x <= y
         IN <<m>> \o SetToSortedSeq(S \ {m})

Range(s) == {s[p] : p \in 1..Len(s)}

VARIABLES
    \* the object source
    root,          \* commit -> its root tree, NoTree when find_object fails
    entries,       \* tree -> its entries
    commits,       \* the revwalk's commits
    \* Options
    num_threads, no_compact, mode,
    \* build / build2
    bpc,           \* where the main thread of build / build2 is
    chunks,        \* the slices commits.chunks(..) yields
    wpos,          \* worker -> the place in its chunk of its next commit
    wstate,        \* worker -> its ReverseGraph (build2)
    wlut,          \* worker -> its capsule table (build)
    wedges,        \* worker -> num_edges / total_refs
    wdone,         \* worker -> its closure has returned
    joined,        \* the (chunk_idx, graph) pairs pushed by the join loop
    edges_total,
    graphs,        \* the result of build2
    luts,          \* the result of build
    \* optimize_topology
    opt_rule,      \* the chain rule applied: "le1" or "eq1"
    optg,          \* the graphs under optimize_topology
    optpasses,     \* graph -> the passes made over it
    optdone,       \* graph -> a pass has removed nothing
    \* one worker of build2, call by call
    bld_g,         \* its ReverseGraph
    bld_pos,       \* the place in the commit list of its next commit
    bld_stack,     \* the calls of recurse_tree2 in progress, innermost last
    bld_edges,     \* num_edges
    \* calls on a ReverseGraph
    api_g,         \* the graph
    api_last,      \* the last call: its arguments and the graph before it
    api_calls,     \* the calls made
    \* find::commit
    graph,         \* the graph handed to find::commit and to the query loop
    blobs,         \* the hashed files
    pthreads,      \* num_threads
    mpc,           \* where the scope's own thread is
    spawned,       \* the workers spawned
    prod,          \* the producer thread
    wk,            \* worker -> its thread
    chan_in,       \* the (is, ir) channel
    chan_out,      \* the (os, or) channel
    commit_indices_to_blobs,
    total_commits,
    collected,     \* the blob indices of the results received, in order
    \* deplete_requests_from_stdin
    sin,           \* the lines of standard input
    spos,          \* the place of the next line to read
    spc,           \* where the loop is
    hexsha,        \* the line in hand
    sbuf,          \* the lines written to standard output and not yet flushed
    sout,          \* the lines flushed to standard output
    num_blobs,
    stotal,        \* total_commits
    \* run: the cache file
    cache_path,    \* whether --cache-path is given
    cache_file,    \* the words of the file at the cache path, or NoFile
    cpc,           \* where run is
    cmem,          \* the graph run holds
    cser,          \* the stream save writes
    cruns,         \* the runs of the process so far
    \* compaction applied again to what a build returned
    compactions,   \* how many times compaction was applied
    once           \* the graphs and capsule tables after the first time

buildVars == <<root, entries, commits, num_threads, no_compact, mode,
               bpc, chunks, wpos, wstate, wlut, wedges, wdone, joined,
               edges_total, graphs, luts>>

optVars == <<opt_rule, optg, optpasses, optdone>>

bldVars == <<bld_g, bld_pos, bld_stack, bld_edges>>

apiVars == <<api_g, api_last, api_calls>>

pipeVars == <<blobs, pthreads, mpc, spawned, prod, wk, chan_in, chan_out,
              commit_indices_to_blobs, total_commits, collected>>

streamVars == <<sin, spos, spc, hexsha, sbuf, sout, num_blobs, stotal>>

cacheVars == <<cache_path, cache_file, cpc, cmem, cser, cruns>>

cmpVars == <<compactions, once>>

vars == <<buildVars, optVars, bldVars, apiVars, graph, pipeVars, streamVars, cacheVars,
          cmpVars>>

CompactIdle ==
    /\ compactions = 0
    /\ once = [graphs |-> <<>>, luts |-> <<>>]

\* the variables a part of the program does not touch keep these values
BldIdle ==
    /\ bld_g = [V |-> <<>>, E |-> <<>>, M |-> <<>>]
    /\ bld_pos = 1
    /\ bld_stack = <<>>
    /\ bld_edges = 0

ApiIdle ==
    /\ api_g = [V |-> <<>>, E |-> <<>>, M |-> <<>>]
    /\ api_last = [op |-> "none", oid |-> 0, parent |-> 0, mapped |-> FALSE,
                    before |-> [V |-> <<>>, E |-> <<>>, M |-> <<>>]]
    /\ api_calls = 0

PipeIdle ==
    /\ blobs = <<>>
    /\ pthreads = 1
    /\ mpc = "idle"
    /\ spawned = 0
    /\ prod = [pc |-> "unspawned", next |-> 1]
    /\ wk = <<>>
    /\ chan_in = <<>>
    /\ chan_out = <<>>
    /\ commit_indices_to_blobs = <<>>
    /\ total_commits = 0
    /\ collected = <<>>

GraphIdle == graph = [V |-> <<>>, E |-> <<>>, M |-> <<>>]

StreamIdle ==
    /\ sin = <<>>
    /\ spos = 1
    /\ spc = "idle"
    /\ hexsha = <<>>
    /\ sbuf = <<>>
    /\ sout = <<>>
    /\ num_blobs = 0
    /\ stotal = 0

CacheIdle ==
    /\ cache_path = FALSE
    /\ cache_file = <<-1>>
    /\ cpc = "idle"
    /\ cmem = [V |-> <<>>, E |-> <<>>, M |-> <<>>]
    /\ cser = <<>>
    /\ cruns = 0

OptIdle ==
    /\ opt_rule = "none"
    /\ optg = <<>>
    /\ optpasses = <<>>
    /\ optdone = <<>>

ParIdle ==
    /\ num_threads = 1
    /\ no_compact = FALSE
    /\ mode = "build2"
    /\ bpc = "start"
    /\ chunks = <<>>
    /\ wpos = <<>>
    /\ wstate = <<>>
    /\ wlut = <<>>
    /\ wedges = <<>>
    /\ wdone = <<>>
    /\ joined = <<>>
    /\ edges_total = 0
    /\ graphs = <<>>
    /\ luts = <<>>

SrcIdle ==
    /\ root = [c \in {} |-> 0]
    /\ entries = [t \in {} |-> <<>>]
    /\ commits = <<>>

notBuild == <<bldVars, apiVars, graph, pipeVars, streamVars, cacheVars,
    cmpVars>>

(***************************************************************************)
(* ReverseGraph (lut.rs).  Vertex ids count from 0 as in the code:         *)
(* vertex id i is V[i + 1].                                                *)
(***************************************************************************)
EmptyGraph == [V |-> <<>>, E |-> <<>>, M |-> <<>>]

len(g) == Len(g.V)

\* a faulty append: the vertex gets no parent list
append_without_edges(g, oid) ==
    LET idx == Len(g.V)
    IN [g |-> [V |-> Append(g.V, oid),
               M |-> (oid :> idx) @@ g.M,
               E |-> g.E],
        ret |-> idx]

append(g, oid) ==
    LET idx == Len(g.V)
    IN [g |-> [V |-> Append(g.V, oid),
               M |-> (oid :> idx) @@ g.M,
               E |-> Append(g.E, <<>>)],
        ret |-> idx]

\* a faulty insert_parent_get_new_child_id: the Occupied arm does not push
\* the parent
insert_parent_drops_edge(g, parent, child) ==
    IF child \in DOMAIN g.M
    THEN [g |-> g, ret |-> None]
    ELSE LET child_idx == Len(g.V)
         IN [g |-> [V |-> Append(g.V, child),
                    M |-> (child :> child_idx) @@ g.M,
                    E |-> Append(g.E, <<parent>>)],
             ret |-> child_idx]

insert_parent_get_new_child_id(g, parent, child) ==
    IF child \in DOMAIN g.M
    THEN [g |-> [g EXCEPT !.E[g.M[child] + 1] = Append(@, parent)],
          ret |-> None]
    ELSE LET child_idx == Len(g.V)
         IN [g |-> [V |-> Append(g.V, child),
                    M |-> (child :> child_idx) @@ g.M,
                    E |-> Append(g.E, <<parent>>)],
             ret |-> child_idx]

\* ReverseGraph::compact: shrink_to_fit on every parent list
compact(g) == g

\* the loop of recurse_tree2 from item `pos` of `tree` on
RECURSIVE recurse_tree2_from(_, _, _, _, _)
recurse_tree2_from(ent, tree, tree_idx, pos, acc) ==
    IF pos > Len(ent[tree]) THEN acc
    ELSE LET item == ent[tree][pos]
         IN CASE kind(item) = "Tree" ->
                   LET r == insert_parent_get_new_child_id(acc.g, tree_idx, item)
                       sub == IF r.ret # None
                              THEN recurse_tree2_from(ent, item, r.ret, 1,
                                                      [g |-> r.g, refs |-> acc.refs])
                              ELSE [g |-> r.g, refs |-> acc.refs]
                   IN recurse_tree2_from(ent, tree, tree_idx, pos + 1, sub)
              [] kind(item) = "Blob" ->
                   recurse_tree2_from(ent, tree, tree_idx, pos + 1,
                       [g |-> insert_parent_get_new_child_id(acc.g, tree_idx, item).g,
                        refs |-> acc.refs + 1])
              [] OTHER -> recurse_tree2_from(ent, tree, tree_idx, pos + 1, acc)

recurse_tree2(ent, tree, tree_idx, g) ==
    recurse_tree2_from(ent, tree, tree_idx, 1, [g |-> g, refs |-> 0])

\* the body of build2's loop over a chunk, for one commit
build2_commit(rt, ent, st, commit_oid) ==
    IF rt[commit_oid] = NoTree THEN st
    ELSE LET a == append(st.g, commit_oid)
             r == insert_parent_get_new_child_id(a.g, a.ret, rt[commit_oid])
         IN IF r.ret # None
            THEN LET s == recurse_tree2(ent, rt[commit_oid], r.ret, r.g)
                 IN [g |-> s.g, refs |-> st.refs + s.refs]
            ELSE [g |-> r.g, refs |-> st.refs]

(***************************************************************************)
(* The capsule table of build (lut.rs): BTreeMap<Oid, Capsule>, a function *)
(* from the digests it holds to [tag, parents].                            *)
(***************************************************************************)
EmptyLut == <<>>

Normal(parents) == [tag |-> "Normal", parents |-> parents]
Compact(parents) == [tag |-> "Compact", parents |-> parents]

\* BTreeMap::insert
lut_insert(lut, oid, capsule) == (oid :> capsule) @@ lut

insert_parent_and_has_not_seen_child(lut, parent_oid, child_oid) ==
    IF child_oid \in DOMAIN lut
    THEN [lut |-> IF lut[child_oid].tag = "Normal"
                  THEN [lut EXCEPT ![child_oid].parents = Append(@, parent_oid)]
                  ELSE lut,
          ret |-> FALSE]
    ELSE [lut |-> lut_insert(lut, child_oid, Normal(<<parent_oid>>)),
          ret |-> TRUE]

\* the Blob arm of recurse_tree: entry(..).or_insert_with(..), then push
insert_blob(lut, tree_oid, item) ==
    LET l == IF item \in DOMAIN lut THEN lut ELSE lut_insert(lut, item, Normal(<<>>))
    IN IF l[item].tag = "Normal"
       THEN [l EXCEPT ![item].parents = Append(@, tree_oid)]
       ELSE l

RECURSIVE recurse_tree_from(_, _, _, _)
recurse_tree_from(ent, tree, pos, acc) ==
    IF pos > Len(ent[tree]) THEN acc
    ELSE LET item == ent[tree][pos]
         IN CASE kind(item) = "Tree" ->
                   LET r == insert_parent_and_has_not_seen_child(acc.lut, tree, item)
                       sub == IF r.ret
                              THEN recurse_tree_from(ent, item, 1,
                                                     [lut |-> r.lut, refs |-> acc.refs])
                              ELSE [lut |-> r.lut, refs |-> acc.refs]
                   IN recurse_tree_from(ent, tree, pos + 1, sub)
              [] kind(item) = "Blob" ->
                   recurse_tree_from(ent, tree, pos + 1,
                       [lut |-> insert_blob(acc.lut, tree, item),
                        refs |-> acc.refs + 1])
              [] OTHER -> recurse_tree_from(ent, tree, pos + 1, acc)

recurse_tree(ent, tree, lut) ==
    recurse_tree_from(ent, tree, 1, [lut |-> lut, refs |-> 0])

\* the body of build's loop over a chunk, for one commit
build_commit(rt, ent, st, commit_oid) ==
    IF rt[commit_oid] = NoTree THEN st
    ELSE LET l0 == lut_insert(st.lut, commit_oid, Normal(<<>>))
             r == insert_parent_and_has_not_seen_child(l0, commit_oid, rt[commit_oid])
         IN IF r.ret
            THEN LET s == recurse_tree(ent, rt[commit_oid], r.lut)
                 IN [lut |-> s.lut, refs |-> st.refs + s.refs]
            ELSE [lut |-> r.lut, refs |-> st.refs]

\* lut.keys().cloned().collect(): the keys in ascending order
all_oids_of(lut) == SetToSortedSeq(DOMAIN lut)

\* binary_search(oid).expect(..): the 0-based place of oid in the sorted keys
binary_search(all_oids, oid) ==
    (CHOOSE p \in 1..Len(all_oids) : all_oids[p] = oid) - 1

\* a faulty compaction: a capsule without parents is left as it is
compact_memory_skips_roots(lut) ==
    LET all_oids == all_oids_of(lut)
    IN [oid \in DOMAIN lut |->
          IF lut[oid].tag = "Normal"
          THEN IF lut[oid].parents = <<>>
               THEN lut[oid]
               ELSE Compact([p \in 1..Len(lut[oid].parents) |->
                                binary_search(all_oids, lut[oid].parents[p])])
          ELSE Compact(<<>>)]

\* a faulty compaction: only the first parent of a capsule is kept
compact_memory_first_parent(lut) ==
    LET all_oids == all_oids_of(lut)
    IN [oid \in DOMAIN lut |->
          IF lut[oid].tag = "Normal" /\ lut[oid].parents # <<>>
          THEN Compact(<<binary_search(all_oids, lut[oid].parents[1])>>)
          ELSE Compact(<<>>)]

compact_memory(lut) ==
    LET all_oids == all_oids_of(lut)
    IN [oid \in DOMAIN lut |->
          IF lut[oid].tag = "Normal"
          THEN Compact([p \in 1..Len(lut[oid].parents) |->
                           binary_search(all_oids, lut[oid].parents[p])])
          ELSE Compact(<<>>)]

commit_oids_table(ls) == [i \in 1..Len(ls) |-> all_oids_of(ls[i])]

(***************************************************************************)
(* The query engine.  A traversal pops the last element of the stack and   *)
(* extends the stack at its end, as Vec::pop and Vec::extend do.           *)
(***************************************************************************)
Pop(stack) == SubSeq(stack, 1, Len(stack) - 1)
Last(stack) == stack[Len(stack)]

\* lookup_oid, Compact arm: the while-let loop
RECURSIVE lookup_compact_loop(_, _, _, _)
lookup_compact_loop(lut, all_oids, stack, res) ==
    IF stack = <<>> THEN res
    ELSE LET idx == Last(stack)
             rest == Pop(stack)
         IN IF idx + 1 > Len(all_oids) \/ all_oids[idx + 1] \notin DOMAIN lut
            THEN [res EXCEPT !.unreachable = TRUE]
            ELSE LET c == lut[all_oids[idx + 1]]
                 IN IF c.tag = "Compact"
                    THEN IF c.parents = <<>>
                         THEN lookup_compact_loop(lut, all_oids, rest,
                                  [res EXCEPT !.out = Append(@, all_oids[idx + 1])])
                         ELSE lookup_compact_loop(lut, all_oids, rest \o c.parents, res)
                    ELSE [res EXCEPT !.unreachable = TRUE]

\* lookup_oid, Normal arm: the while-let loop
RECURSIVE lookup_normal_loop(_, _, _)
lookup_normal_loop(lut, stack, res) ==
    IF stack = <<>> THEN res
    ELSE LET oid == Last(stack)
             rest == Pop(stack)
         IN IF oid \notin DOMAIN lut
            THEN [res EXCEPT !.unreachable = TRUE]
            ELSE LET c == lut[oid]
                 IN IF c.tag = "Normal"
                    THEN IF c.parents = <<>>
                         THEN lookup_normal_loop(lut, rest,
                                  [res EXCEPT !.out = Append(@, oid)])
                         ELSE lookup_normal_loop(lut, rest \o c.parents, res)
                    ELSE [res EXCEPT !.unreachable = TRUE]

\* res.out is the out vector, res.unreachable says that an unreachable!()
\* arm was entered
lookup_oid(blob, lut, all_oids, res) ==
    IF blob \notin DOMAIN lut THEN res
    ELSE IF lut[blob].tag = "Compact"
         THEN lookup_compact_loop(lut, all_oids, lut[blob].parents, res)
         ELSE lookup_normal_loop(lut, lut[blob].parents, res)

RECURSIVE commits_by_blob_from(_, _, _, _, _)
commits_by_blob_from(blob, ls, all_oids, i, res) ==
    IF i > Len(ls) \/ i > Len(all_oids) THEN res
    ELSE commits_by_blob_from(blob, ls, all_oids, i + 1,
                              lookup_oid(blob, ls[i], all_oids[i], res))

commits_by_blob(blob, ls, all_oids) ==
    commits_by_blob_from(blob, ls, all_oids, 1, [out |-> <<>>, unreachable |-> FALSE])

\* ReverseGraph::lookup_idx: the traversal of the query engine, emitting
\* vertex ids
RECURSIVE lookup_idx_loop(_, _, _)
lookup_idx_loop(g, stack, out) ==
    IF stack = <<>> THEN out
    ELSE LET i == Last(stack)
             rest == Pop(stack)
         IN IF g.E[i + 1] = <<>>
            THEN lookup_idx_loop(g, rest, Append(out, i))
            ELSE lookup_idx_loop(g, rest \o g.E[i + 1], out)

lookup_idx(g, blob) ==
    IF blob \notin DOMAIN g.M THEN <<>>
    ELSE lookup_idx_loop(g, g.E[g.M[blob] + 1], <<>>)

\* ReverseGraph::lookup: the same, emitting digests
lookup(g, blob) ==
    LET ids == lookup_idx(g, blob)
    IN [p \in 1..Len(ids) |-> g.V[ids[p] + 1]]

(***************************************************************************)
(* build and build2 (lut.rs): the commits are split with                   *)
(* commits.chunks(commits.len() / num_threads), one thread per chunk.      *)
(***************************************************************************)
\* slice::chunks(chunk_size), for chunk_size > 0
RECURSIVE slice_chunks(_, _)
slice_chunks(s, chunk_size) ==
    IF s = <<>> THEN <<>>
    ELSE IF Len(s) <= chunk_size THEN <<s>>
    ELSE <<SubSeq(s, 1, chunk_size)>> \o slice_chunks(SubSeq(s, chunk_size + 1, Len(s)), chunk_size)

Workers == 1..Len(chunks)

\* the revwalk yields every commit once
CommitLists == {[i \in 1..n |-> CommitOid(i)] : n \in 0..NCommits}

\* the trees the walk can open: the roots and the trees below them.  The
\* entries of the other trees are never read and are left empty.
RECURSIVE TreesBelow(_, _)
TreesBelow(ent, tree) ==
    {tree} \cup UNION {TreesBelow(ent, ent[tree][p]) :
                          p \in {q \in 1..Len(ent[tree]) : kind(ent[tree][q]) = "Tree"}}

ReachableTrees(rt, ent) ==
    UNION {TreesBelow(ent, rt[c]) : c \in {d \in CommitOids : rt[d] # NoTree}}

BuildInit ==
    /\ commits \in CommitLists
    /\ root \in [CommitOids -> TreeOids \cup {NoTree}]
    /\ \A c \in CommitOids \ Range(commits) : root[c] = NoTree
    /\ entries \in Repositories
    /\ \A t \in TreeOids \ ReachableTrees(root, entries) : entries[t] = <<>>
    /\ num_threads \in 1..MaxThreads
    /\ no_compact \in BOOLEAN
    /\ mode \in {"build", "build2"}
    /\ bpc = "start"
    /\ chunks = <<>>
    /\ wpos = <<>>
    /\ wstate = <<>>
    /\ wlut = <<>>
    /\ wedges = <<>>
    /\ wdone = <<>>
    /\ joined = <<>>
    /\ edges_total = 0
    /\ graphs = <<>>
    /\ luts = <<>>
    /\ OptIdle
    /\ BldIdle
    /\ ApiIdle
    /\ GraphIdle
    /\ PipeIdle
    /\ StreamIdle
    /\ CacheIdle
    /\ CompactIdle

\* the scope's for loop: chunks(n) panics for n = 0; otherwise one thread is
\* spawned per chunk
BuildSpawn ==
    /\ bpc = "start"
    /\ LET chunk_size == Len(commits) \div num_threads
       IN IF chunk_size = 0
          THEN /\ bpc' = "panicked"
               /\ UNCHANGED <<chunks, wpos, wstate, wlut, wedges, wdone>>
          ELSE /\ bpc' = "running"
               /\ chunks' = slice_chunks(commits, chunk_size)
               /\ wpos' = [w \in 1..Len(chunks') |-> 1]
               /\ wstate' = [w \in 1..Len(chunks') |-> EmptyGraph]
               /\ wlut' = [w \in 1..Len(chunks') |-> EmptyLut]
               /\ wedges' = [w \in 1..Len(chunks') |-> 0]
               /\ wdone' = [w \in 1..Len(chunks') |-> FALSE]
    /\ UNCHANGED <<root, entries, commits, num_threads, no_compact, mode,
                   joined, edges_total, graphs, luts>>
    /\ UNCHANGED <<optVars, notBuild>>

\* one turn of a worker's loop over its chunk
WorkerCommit(w) ==
    /\ bpc = "running"
    /\ ~wdone[w]
    /\ wpos[w] <= Len(chunks[w])
    /\ LET commit_oid == chunks[w][wpos[w]]
       IN IF mode = "build2"
          THEN LET s == build2_commit(root, entries,
                                      [g |-> wstate[w], refs |-> wedges[w]], commit_oid)
               IN /\ wstate' = [wstate EXCEPT ![w] = s.g]
                  /\ wedges' = [wedges EXCEPT ![w] = s.refs]
                  /\ UNCHANGED wlut
          ELSE LET s == build_commit(root, entries,
                                     [lut |-> wlut[w], refs |-> wedges[w]], commit_oid)
               IN /\ wlut' = [wlut EXCEPT ![w] = s.lut]
                  /\ wedges' = [wedges EXCEPT ![w] = s.refs]
                  /\ UNCHANGED wstate
    /\ wpos' = [wpos EXCEPT ![w] = @ + 1]
    /\ UNCHANGED <<root, entries, commits, num_threads, no_compact, mode,
                   bpc, chunks, wdone, joined, edges_total, graphs, luts>>
    /\ UNCHANGED <<optVars, notBuild>>

\* the end of a worker's closure: compaction unless --no-compact
WorkerFinish(w) ==
    /\ bpc = "running"
    /\ ~wdone[w]
    /\ wpos[w] > Len(chunks[w])
    /\ IF no_compact
       THEN UNCHANGED <<wstate, wlut>>
       ELSE IF mode = "build2"
            THEN /\ wstate' = [wstate EXCEPT ![w] = compact(@)]
                 /\ UNCHANGED wlut
            ELSE /\ wlut' = [wlut EXCEPT ![w] = compact_memory(@)]
                 /\ UNCHANGED wstate
    /\ wdone' = [wdone EXCEPT ![w] = TRUE]
    /\ UNCHANGED <<root, entries, commits, num_threads, no_compact, mode,
                   bpc, chunks, wpos, wedges, joined, edges_total, graphs, luts>>
    /\ UNCHANGED <<optVars, notBuild>>

\* one turn of the join loop: guard.join() waits for the thread, in the
\* order the guards were pushed
BuildJoin ==
    /\ bpc = "running"
    /\ Len(joined) < Len(chunks)
    /\ LET w == Len(joined) + 1
       IN /\ wdone[w]
          /\ joined' = Append(joined, [chunk_idx |-> w - 1,
                                       state |-> wstate[w], lut |-> wlut[w]])
          /\ edges_total' = edges_total + wedges[w]
    /\ UNCHANGED <<root, entries, commits, num_threads, no_compact, mode,
                   bpc, chunks, wpos, wstate, wlut, wedges, wdone, graphs, luts>>
    /\ UNCHANGED <<optVars, notBuild>>

\* sort_by_key(|(chunk_idx, _)| *chunk_idx), a stable sort
RECURSIVE sort_by_chunk_idx(_)
sort_by_chunk_idx(s) ==
    IF s = <<>> THEN <<>>
    ELSE LET p == CHOOSE q \in 1..Len(s) :
                     /\ \A r \in 1..Len(s) : s[q].chunk_idx <= s[r].chunk_idx
                     /\ \A r \in 1..(q - 1) : s[r].chunk_idx # s[q].chunk_idx
         IN <<s[p]>> \o sort_by_chunk_idx(SubSeq(s, 1, p - 1) \o SubSeq(s, p + 1, Len(s)))

\* after the scope: sort, drain, Ok(graphs)
BuildReady ==
    /\ bpc = "running"
    /\ Len(joined) = Len(chunks)
    /\ LET sorted == sort_by_chunk_idx(joined)
       IN IF mode = "build2"
          THEN /\ graphs' = [i \in 1..Len(sorted) |-> sorted[i].state]
               /\ UNCHANGED luts
          ELSE /\ luts' = [i \in 1..Len(sorted) |-> sorted[i].lut]
               /\ UNCHANGED graphs
    /\ bpc' = "ready"
    /\ UNCHANGED <<optVars, notBuild>>
    /\ UNCHANGED <<root, entries, commits, num_threads, no_compact, mode,
                   chunks, wpos, wstate, wlut, wedges, wdone, joined, edges_total>>

(***************************************************************************)
(* optimize_topology (spec 4.A): a pass scans the vertices in id order and *)
(* replaces the parent list of a vertex with a single parent p by a copy   *)
(* of p's parent list when that list is short enough; passes repeat until  *)
(* one removes nothing.  The documented rule admits a parent list of       *)
(* length <= 1 ("le1"); the variant of the source history asks for length  *)
(* exactly 1 ("eq1").                                                      *)
(***************************************************************************)
\* a faulty collapses: the documented rule whatever the variant asked for
collapses_always_le1(rule, parents_of_p) == Len(parents_of_p) <= 1

collapses(rule, parents_of_p) ==
    IF rule = "eq1" THEN Len(parents_of_p) = 1 ELSE Len(parents_of_p) <= 1

\* a faulty pass: the vertices to collapse are counted and none is rewritten
RECURSIVE optimize_pass_counts_only(_, _, _)
optimize_pass_counts_only(rule, v, acc) ==
    IF v >= Len(acc.g.V) THEN acc
    ELSE LET ps == acc.g.E[v + 1]
         IN IF Len(ps) = 1 /\ collapses(rule, acc.g.E[ps[1] + 1])
            THEN optimize_pass_counts_only(rule, v + 1,
                                           [g |-> acc.g, removed |-> acc.removed + 1])
            ELSE optimize_pass_counts_only(rule, v + 1, acc)

RECURSIVE optimize_pass_from(_, _, _)
optimize_pass_from(rule, v, acc) ==
    IF v >= Len(acc.g.V) THEN acc
    ELSE LET ps == acc.g.E[v + 1]
         IN IF Len(ps) = 1 /\ collapses(rule, acc.g.E[ps[1] + 1])
            THEN optimize_pass_from(rule, v + 1,
                     [g |-> [acc.g EXCEPT !.E[v + 1] = acc.g.E[ps[1] + 1]],
                      removed |-> acc.removed + 1])
            ELSE optimize_pass_from(rule, v + 1, acc)

optimize_pass(rule, g) == optimize_pass_from(rule, 0, [g |-> g, removed |-> 0])

\* the loop of a worker over its whole chunk
RECURSIVE sequential_build2(_, _, _, _)
sequential_build2(rt, ent, cs, st) ==
    IF cs = <<>> THEN st
    ELSE sequential_build2(rt, ent, Tail(cs), build2_commit(rt, ent, st, Head(cs)))

RECURSIVE sequential_build(_, _, _, _)
sequential_build(rt, ent, cs, st) ==
    IF cs = <<>> THEN st
    ELSE sequential_build(rt, ent, Tail(cs), build_commit(rt, ent, st, Head(cs)))

\* a graph as the Builder hands it to optimize_topology: built from a
\* commit list by one worker, then compacted
OptInit ==
    /\ commits \in CommitLists \ {<<>>}
    /\ root \in [CommitOids -> TreeOids \cup {NoTree}]
    /\ \A c \in CommitOids \ Range(commits) : root[c] = NoTree
    /\ entries \in Repositories
    /\ \A t \in TreeOids \ ReachableTrees(root, entries) : entries[t] = <<>>
    /\ num_threads = 1
    /\ no_compact = FALSE
    /\ mode = "build2"
    /\ bpc = "ready"
    /\ chunks = <<commits>>
    /\ wpos = <<Len(commits) + 1>>
    /\ wstate = <<compact(sequential_build2(root, entries, commits,
                                           [g |-> EmptyGraph, refs |-> 0]).g)>>
    /\ wlut = <<EmptyLut>>
    /\ wedges = <<sequential_build2(root, entries, commits,
                                   [g |-> EmptyGraph, refs |-> 0]).refs>>
    /\ wdone = <<TRUE>>
    /\ joined = <<[chunk_idx |-> 0, state |-> wstate[1], lut |-> wlut[1]]>>
    /\ edges_total = wedges[1]
    /\ graphs = wstate
    /\ luts = <<>>
    /\ opt_rule \in {"le1", "eq1"}
    /\ optg = graphs
    /\ optpasses = <<0>>
    /\ optdone = <<FALSE>>
    /\ BldIdle
    /\ ApiIdle
    /\ GraphIdle
    /\ PipeIdle
    /\ StreamIdle
    /\ CacheIdle
    /\ CompactIdle

\* one pass of optimize_topology over graph i
OptimizePass(i) ==
    /\ ~optdone[i]
    /\ LET r == optimize_pass(opt_rule, optg[i])
       IN /\ optg' = [optg EXCEPT ![i] = r.g]
          /\ optpasses' = [optpasses EXCEPT ![i] = @ + 1]
          /\ optdone' = [optdone EXCEPT ![i] = (r.removed = 0)]
    /\ UNCHANGED <<buildVars, opt_rule, notBuild>>

BuildNext ==
    \/ BuildSpawn
    \/ \E w \in Workers : WorkerCommit(w)
    \/ \E w \in Workers : WorkerFinish(w)
    \/ BuildJoin
    \/ BuildReady

OptNext == \E i \in 1..Len(optg) : OptimizePass(i)

Init == BuildInit
Next == BuildNext
Spec == Init /\ [][Next]_vars

OptSpec == OptInit /\ [][OptNext]_vars

(***************************************************************************)
(* The forward graph, for stating what a query must answer.                *)
(***************************************************************************)
RECURSIVE BlobsBelow(_, _)
BlobsBelow(ent, tree) ==
    {ent[tree][p] : p \in {q \in 1..Len(ent[tree]) : kind(ent[tree][q]) = "Blob"}}
    \cup UNION {BlobsBelow(ent, ent[tree][p]) :
                  p \in {q \in 1..Len(ent[tree]) : kind(ent[tree][q]) = "Tree"}}

\* the commits of cs whose object is found and from whose root tree b is reachable
CommitsHolding(b, cs) ==
    {c \in Range(cs) : root[c] # NoTree /\ b \in BlobsBelow(entries, root[c])}

NoResult == [out |-> <<>>, unreachable |-> FALSE]

\* the answer of the graph of chunk i to a query for b, as a set
AnswerOfChunk(i, b) ==
    IF mode = "build2"
    THEN Range(lookup(graphs[i], b))
    ELSE Range(lookup_oid(b, luts[i], all_oids_of(luts[i]), NoResult).out)

EncounteredBy(i) ==
    IF mode = "build2" THEN DOMAIN graphs[i].M ELSE DOMAIN luts[i]

(***************************************************************************)
(* C1: in every graph the build produces, a query for a blob met during    *)
(* the build answers exactly the commits of the graph's chunk whose object *)
(* was found and from whose root tree the blob is reachable; the answer is *)
(* not empty, and every blob below such a commit was met.                  *)
(***************************************************************************)
C1_LookupIsReachability ==
    bpc = "ready" =>
        \A i \in 1..Len(chunks) : \A b \in BlobOids :
            /\ b \in EncounteredBy(i) <=> CommitsHolding(b, chunks[i]) # {}
            /\ b \in EncounteredBy(i) =>
                  /\ AnswerOfChunk(i, b) = CommitsHolding(b, chunks[i])
                  /\ AnswerOfChunk(i, b) # {}
                  /\ mode = "build" =>
                        ~lookup_oid(b, luts[i], all_oids_of(luts[i]), NoResult).unreachable

\* a blob that two commits of one chunk share through a subtree is answered
\* with both, by a compacted capsule table
C1_Witness ==
    /\ bpc = "ready"
    /\ mode = "build"
    /\ ~no_compact
    /\ \E i \in 1..Len(chunks) : \E b \in BlobOids :
          /\ b \in EncounteredBy(i)
          /\ Cardinality(AnswerOfChunk(i, b)) >= 2
          /\ \E t \in TreeOids : b \in Range(entries[t]) /\ t \notin {root[c] : c \in CommitOids}

SequentialAnswer(b) ==
    IF mode = "build2"
    THEN Range(lookup(sequential_build2(root, entries, commits,
                                        [g |-> EmptyGraph, refs |-> 0]).g, b))
    ELSE LET l == sequential_build(root, entries, commits,
                                   [lut |-> EmptyLut, refs |-> 0]).lut
             lc == IF no_compact THEN l ELSE compact_memory(l)
         IN Range(lookup_oid(b, lc, all_oids_of(lc), NoResult).out)

ParallelAnswer(b) ==
    IF mode = "build2"
    THEN UNION {Range(lookup(graphs[i], b)) : i \in 1..Len(graphs)}
    ELSE Range(commits_by_blob(b, luts, commit_oids_table(luts)).out)

C3_ParallelEqualsSequential ==
    /\ bpc = "ready" =>
          \A b \in BlobOids \cup {UnknownOid} : ParallelAnswer(b) = SequentialAnswer(b)
    \* a build that panicked answers nothing
    /\ bpc = "panicked" =>
          \A b \in BlobOids \cup {UnknownOid} : SequentialAnswer(b) = {}

\* the part of C3 that holds: whenever the parallel build returns
ParallelEqualsSequentialWhenReady ==
    bpc = "ready" =>
        \A b \in Oids \cup {UnknownOid} : ParallelAnswer(b) = SequentialAnswer(b)

(***************************************************************************)
(* C8: the parallel build splits the commit list into exactly num_threads  *)
(* contiguous chunks, in list order, every commit in exactly one chunk.    *)
(***************************************************************************)
RECURSIVE Flatten(_)
Flatten(ss) == IF ss = <<>> THEN <<>> ELSE Head(ss) \o Flatten(Tail(ss))

C8_ExactlyTChunks ==
    bpc # "start" =>
        /\ bpc # "panicked"
        /\ Len(chunks) = num_threads
        /\ Flatten(chunks) = commits

\* what the code keeps of C8: the chunks it makes are contiguous, in list
\* order, and cover the list
ChunksPartitionCommits ==
    bpc \in {"running", "ready"} => Flatten(chunks) = commits

(***************************************************************************)
(* C9: with no commits the build completes with an empty index, and every  *)
(* query answers nothing.                                                  *)
(***************************************************************************)
C9_EmptyRepositoryBuilds ==
    (commits = <<>> /\ bpc # "start") =>
        /\ bpc # "panicked"
        /\ bpc = "ready" =>
              /\ \A i \in 1..Len(graphs) : len(graphs[i]) = 0
              /\ \A i \in 1..Len(luts) : DOMAIN luts[i] = {}
              /\ \A b \in Oids \cup {UnknownOid} : ParallelAnswer(b) = {}

(***************************************************************************)
(* One worker of build2 over the whole commit list, one call of append or  *)
(* insert_parent_get_new_child_id at a time.  A frame of bld_stack is a    *)
(* call of recurse_tree2 (its tree, tree_idx and the place of its next     *)
(* item), or the commit whose root tree is to be inserted next.            *)
(***************************************************************************)
BuilderInit ==
    /\ commits \in CommitLists
    /\ root \in [CommitOids -> TreeOids \cup {NoTree}]
    /\ \A c \in CommitOids \ Range(commits) : root[c] = NoTree
    /\ entries \in Repositories
    /\ \A t \in TreeOids \ ReachableTrees(root, entries) : entries[t] = <<>>
    /\ ParIdle
    /\ OptIdle
    /\ BldIdle
    /\ ApiIdle
    /\ GraphIdle
    /\ PipeIdle
    /\ StreamIdle
    /\ CacheIdle
    /\ CompactIdle

notBuilder == <<root, entries, commits, num_threads, no_compact, mode,
                bpc, chunks, wpos, wstate, wlut, wedges, wdone, joined,
                edges_total, graphs, luts, optVars, apiVars, graph, pipeVars,
                streamVars, cacheVars, cmpVars>>

Top(stack) == stack[Len(stack)]

\* the next commit of the list: find_object, then state.append(commit_oid)
BuilderAppend ==
    /\ bld_stack = <<>>
    /\ bld_pos <= Len(commits)
    /\ LET commit_oid == commits[bld_pos]
       IN IF root[commit_oid] = NoTree
          THEN UNCHANGED <<bld_g, bld_stack>>
          ELSE LET a == append(bld_g, commit_oid)
               IN /\ bld_g' = a.g
                  /\ bld_stack' = <<[at |-> "commit", tree |-> root[commit_oid],
                                     tree_idx |-> a.ret, pos |-> 0]>>
    /\ bld_pos' = bld_pos + 1
    /\ UNCHANGED <<bld_edges, notBuilder>>

\* state.insert_parent_get_new_child_id(commit_idx, tree.id())
BuilderInsertRoot ==
    /\ bld_stack # <<>>
    /\ Top(bld_stack).at = "commit"
    /\ LET f == Top(bld_stack)
           r == insert_parent_get_new_child_id(bld_g, f.tree_idx, f.tree)
       IN /\ bld_g' = r.g
          /\ bld_stack' = IF r.ret # None
                          THEN <<[at |-> "tree", tree |-> f.tree,
                                  tree_idx |-> r.ret, pos |-> 1]>>
                          ELSE <<>>
    /\ UNCHANGED <<bld_pos, bld_edges, notBuilder>>

\* one turn of the loop of recurse_tree2 over the items of a tree
BuilderItem ==
    /\ bld_stack # <<>>
    /\ Top(bld_stack).at = "tree"
    /\ Top(bld_stack).pos <= Len(entries[Top(bld_stack).tree])
    /\ LET f == Top(bld_stack)
           item == entries[f.tree][f.pos]
           below == [bld_stack EXCEPT ![Len(bld_stack)].pos = f.pos + 1]
           r == insert_parent_get_new_child_id(bld_g, f.tree_idx, item)
       IN CASE kind(item) = "Tree" ->
                 /\ bld_g' = r.g
                 /\ bld_stack' = IF r.ret # None
                                 THEN Append(below, [at |-> "tree", tree |-> item,
                                                     tree_idx |-> r.ret, pos |-> 1])
                                 ELSE below
                 /\ UNCHANGED bld_edges
            [] kind(item) = "Blob" ->
                 /\ bld_g' = r.g
                 /\ bld_stack' = below
                 /\ bld_edges' = bld_edges + 1
            [] OTHER ->
                 /\ bld_stack' = below
                 /\ UNCHANGED <<bld_g, bld_edges>>
    /\ UNCHANGED <<bld_pos, notBuilder>>

\* recurse_tree2 returns
BuilderReturn ==
    /\ bld_stack # <<>>
    /\ Top(bld_stack).at = "tree"
    /\ Top(bld_stack).pos > Len(entries[Top(bld_stack).tree])
    /\ bld_stack' = SubSeq(bld_stack, 1, Len(bld_stack) - 1)
    /\ UNCHANGED <<bld_g, bld_pos, bld_edges, notBuilder>>

BuilderNext ==
    \/ BuilderAppend
    \/ BuilderInsertRoot
    \/ BuilderItem
    \/ BuilderReturn

BuilderSpec == BuilderInit /\ [][BuilderNext]_vars

BuilderDone == bld_stack = <<>> /\ bld_pos > Len(commits)

\* the calls, one at a time, end in the graph the loop computes
BuilderAgreesWithLoop ==
    BuilderDone =>
        LET st == sequential_build2(root, entries, commits, [g |-> EmptyGraph, refs |-> 0])
        IN bld_g = st.g /\ bld_edges = st.refs

(***************************************************************************)
(* C4: after every call of append and insert_parent_get_new_child_id the   *)
(* Builder makes, the graph has as many parent lists as vertices, every    *)
(* parent id names a vertex, and the map takes the digest of vertex i to   *)
(* i (so no digest is the digest of two vertices).                         *)
(***************************************************************************)
WellFormed(g) ==
    /\ Len(g.V) = Len(g.E)
    /\ \A i \in 1..Len(g.E) : \A p \in 1..Len(g.E[i]) :
          g.E[i][p] >= 0 /\ g.E[i][p] < Len(g.V)
    /\ DOMAIN g.M = Range(g.V)
    /\ \A i \in 1..Len(g.V) : g.M[g.V[i]] = i - 1

C4_GraphWellFormed == WellFormed(bld_g)

\* a graph of two commits in which a vertex has got a second parent
C4_Witness ==
    /\ Len(bld_g.V) >= 4
    /\ \E i \in 1..Len(bld_g.E) : Len(bld_g.E[i]) >= 2
    /\ Cardinality({i \in 1..Len(bld_g.E) : bld_g.E[i] = <<>>}) >= 2

(***************************************************************************)
(* Calls of append and insert_parent_get_new_child_id on a ReverseGraph,   *)
(* with any digest and any vertex id of the graph.                         *)
(***************************************************************************)
MaxCalls == 3

ApiInit ==
    /\ SrcIdle
    /\ ParIdle
    /\ OptIdle
    /\ BldIdle
    /\ ApiIdle
    /\ GraphIdle
    /\ PipeIdle
    /\ StreamIdle
    /\ CacheIdle
    /\ CompactIdle

notApi == <<buildVars, optVars, bldVars, graph, pipeVars, streamVars, cacheVars,
    cmpVars>>

ApiAppend(oid) ==
    /\ api_calls < MaxCalls
    /\ api_g' = append(api_g, oid).g
    /\ api_last' = [op |-> "append", oid |-> oid, parent |-> 0,
                    mapped |-> oid \in DOMAIN api_g.M, before |-> api_g]
    /\ api_calls' = api_calls + 1
    /\ UNCHANGED notApi

ApiInsertParent(parent, child) ==
    /\ api_calls < MaxCalls
    /\ api_g' = insert_parent_get_new_child_id(api_g, parent, child).g
    /\ api_last' = [op |-> "insert_parent", oid |-> child, parent |-> parent,
                    mapped |-> child \in DOMAIN api_g.M, before |-> api_g]
    /\ api_calls' = api_calls + 1
    /\ UNCHANGED notApi

ApiNext ==
    \/ \E oid \in Oids : ApiAppend(oid)
    \/ \E parent \in 0..(len(api_g) - 1) : \E child \in Oids :
          ApiInsertParent(parent, child)

ApiSpec == ApiInit /\ [][ApiNext]_vars

(***************************************************************************)
(* C10: append of a digest that is already mapped fails and leaves the     *)
(* graph as it was; no digest ever gets a second vertex.                   *)
(***************************************************************************)
C10_AppendRejectsMappedDigest ==
    /\ (api_last.op = "append" /\ api_last.mapped) => api_g = api_last.before
    /\ \A i, j \in 1..Len(api_g.V) : api_g.V[i] = api_g.V[j] => i = j

(***************************************************************************)
(* find::commit (find.rs): a producer sends (bid, blob) into a channel of  *)
(* capacity num_threads, num_threads workers look each blob up and send    *)
(* (bid, commits) into a second channel of that capacity, and the scope's  *)
(* own thread ticks bit bid of every commit index it receives.             *)
(***************************************************************************)
MaxBlobs == 3
MaxPipeThreads == 2

SampleCommits == <<CommitOid(1), CommitOid(2)>>

\* commit 1 -> tree 1 -> {blob 1, tree 2 -> blob 2}, commit 2 -> tree 2
SampleRoot ==
    [c \in CommitOids |->
        IF c = CommitOid(1) THEN TreeOid(1)
        ELSE IF c = CommitOid(2) THEN TreeOid(2) ELSE NoTree]

SampleEntries ==
    [t \in TreeOids |->
        IF t = TreeOid(1) THEN <<BlobOid(1), TreeOid(2)>>
        ELSE IF t = TreeOid(2) THEN <<BlobOid(2)>> ELSE <<>>]

SampleGraphs ==
    {sequential_build2(SampleRoot, SampleEntries, SubSeq(SampleCommits, 1, n),
                       [g |-> EmptyGraph, refs |-> 0]).g : n \in 1..2}

QueryOids == {BlobOid(1), BlobOid(2), UnknownOid}

\* FixedBitSet::with_capacity(0)
EmptyBits == [len |-> 0, bits |-> {}]

PipeInit ==
    /\ SrcIdle
    /\ ParIdle
    /\ OptIdle
    /\ BldIdle
    /\ ApiIdle
    /\ graph \in SampleGraphs
    /\ blobs \in SeqsUpTo(QueryOids, MaxBlobs)
    /\ pthreads \in 1..MaxPipeThreads
    /\ mpc = "spawn_producer"
    /\ spawned = 0
    /\ prod = [pc |-> "unspawned", next |-> 1]
    /\ wk = [w \in 1..pthreads |-> [pc |-> "unspawned", bid |-> 0, commits |-> <<>>]]
    /\ chan_in = <<>>
    /\ chan_out = <<>>
    /\ commit_indices_to_blobs = [c \in 1..len(graph) |-> EmptyBits]
    /\ total_commits = 0
    /\ collected = <<>>
    /\ StreamIdle
    /\ CacheIdle
    /\ CompactIdle

notPipe == <<buildVars, optVars, bldVars, apiVars, graph, streamVars, cacheVars,
    cmpVars>>

\* scope.spawn of the producer; `is` moves into its closure
MainSpawnProducer ==
    /\ mpc = "spawn_producer"
    /\ prod' = [prod EXCEPT !.pc = "sending"]
    /\ mpc' = "spawn_workers"
    /\ UNCHANGED <<blobs, pthreads, spawned, wk, chan_in, chan_out,
                   commit_indices_to_blobs, total_commits, collected, notPipe>>

\* one turn of for _ in 0..num_threads: clone ir and os, spawn
MainSpawnWorker ==
    /\ mpc = "spawn_workers"
    /\ spawned < pthreads
    /\ wk' = [wk EXCEPT ![spawned + 1].pc = "recv"]
    /\ spawned' = spawned + 1
    /\ UNCHANGED <<blobs, pthreads, mpc, prod, chan_in, chan_out,
                   commit_indices_to_blobs, total_commits, collected, notPipe>>

\* the block yields `or`; its own ir and os are dropped
MainEndBlock ==
    /\ mpc = "spawn_workers"
    /\ spawned = pthreads
    /\ mpc' = "collect"
    /\ UNCHANGED <<blobs, pthreads, spawned, prod, wk, chan_in, chan_out,
                   commit_indices_to_blobs, total_commits, collected, notPipe>>

\* is.send(bid_and_blob): blocks while the channel is full
ProducerSend ==
    /\ prod.pc = "sending"
    /\ prod.next <= Len(blobs)
    /\ Len(chan_in) < pthreads
    /\ chan_in' = Append(chan_in, [bid |-> prod.next - 1, blob |-> blobs[prod.next]])
    /\ prod' = [prod EXCEPT !.next = @ + 1]
    /\ UNCHANGED <<blobs, pthreads, mpc, spawned, wk, chan_out,
                   commit_indices_to_blobs, total_commits, collected, notPipe>>

\* a faulty end of the producer: the loop ends and `is` is kept
ProducerKeepsSender ==
    /\ prod.pc = "sending"
    /\ prod.next > Len(blobs)
    /\ prod' = [prod EXCEPT !.pc = "parked"]
    /\ UNCHANGED <<blobs, pthreads, mpc, spawned, wk, chan_in, chan_out,
                   commit_indices_to_blobs, total_commits, collected, notPipe>>

\* the producer's closure ends; `is` is dropped
ProducerExit ==
    /\ prod.pc = "sending"
    /\ prod.next > Len(blobs)
    /\ prod' = [prod EXCEPT !.pc = "exited"]
    /\ UNCHANGED <<blobs, pthreads, mpc, spawned, wk, chan_in, chan_out,
                   commit_indices_to_blobs, total_commits, collected, notPipe>>

\* for (bid, blob) in ir: a message is received and looked up
WorkerRecv(w) ==
    /\ wk[w].pc = "recv"
    /\ chan_in # <<>>
    /\ wk' = [wk EXCEPT ![w] = [pc |-> "send", bid |-> Head(chan_in).bid,
                                commits |-> lookup_idx(graph, Head(chan_in).blob)]]
    /\ chan_in' = Tail(chan_in)
    /\ UNCHANGED <<blobs, pthreads, mpc, spawned, prod, chan_out,
                   commit_indices_to_blobs, total_commits, collected, notPipe>>

\* os.send((bid, commits)): blocks while the channel is full
WorkerSend(w) ==
    /\ wk[w].pc = "send"
    /\ Len(chan_out) < pthreads
    /\ chan_out' = Append(chan_out, [bid |-> wk[w].bid, commits |-> wk[w].commits])
    /\ wk' = [wk EXCEPT ![w] = [pc |-> "recv", bid |-> 0, commits |-> <<>>]]
    /\ UNCHANGED <<blobs, pthreads, mpc, spawned, prod, chan_in,
                   commit_indices_to_blobs, total_commits, collected, notPipe>>

\* the iteration over ir ends: the channel is empty and its sender dropped
WorkerExit(w) ==
    /\ wk[w].pc = "recv"
    /\ chan_in = <<>>
    /\ prod.pc = "exited"
    /\ wk' = [wk EXCEPT ![w].pc = "exited"]
    /\ UNCHANGED <<blobs, pthreads, mpc, spawned, prod, chan_in, chan_out,
                   commit_indices_to_blobs, total_commits, collected, notPipe>>

\* a faulty tick_bits: only the last commit index of a result is ticked
tick_bits_last_only(table, bid, commit_ids, nblobs) ==
    [c \in DOMAIN table |->
        IF commit_ids # <<>> /\ c - 1 = commit_ids[Len(commit_ids)]
        THEN [len |-> IF table[c].len = 0 THEN nblobs ELSE table[c].len,
              bits |-> table[c].bits \cup {bid}]
        ELSE table[c]]

\* for &commit_index in &commit_ids: grow the bitset when empty, put(bid)
tick_bits(table, bid, commit_ids, nblobs) ==
    [c \in DOMAIN table |->
        IF c - 1 \in Range(commit_ids)
        THEN [len |-> IF table[c].len = 0 THEN nblobs ELSE table[c].len,
              bits |-> table[c].bits \cup {bid}]
        ELSE table[c]]

\* one turn of for (bid, commits) in or
Collect ==
    /\ mpc = "collect"
    /\ chan_out # <<>>
    /\ commit_indices_to_blobs' =
          tick_bits(commit_indices_to_blobs, Head(chan_out).bid,
                    Head(chan_out).commits, Len(blobs))
    /\ total_commits' = total_commits + Len(Head(chan_out).commits)
    /\ collected' = Append(collected, Head(chan_out).bid)
    /\ chan_out' = Tail(chan_out)
    /\ UNCHANGED <<blobs, pthreads, mpc, spawned, prod, wk, chan_in, notPipe>>

\* the iteration over `or` ends: the channel is empty and every os dropped
CollectEnd ==
    /\ mpc = "collect"
    /\ chan_out = <<>>
    /\ \A w \in 1..pthreads : wk[w].pc = "exited"
    /\ mpc' = "done"
    /\ UNCHANGED <<blobs, pthreads, spawned, prod, wk, chan_in, chan_out,
                   commit_indices_to_blobs, total_commits, collected, notPipe>>

PipeNext ==
    \/ MainSpawnProducer
    \/ MainSpawnWorker
    \/ MainEndBlock
    \/ ProducerSend
    \/ ProducerExit
    \/ \E w \in 1..pthreads : WorkerRecv(w)
    \/ \E w \in 1..pthreads : WorkerSend(w)
    \/ \E w \in 1..pthreads : WorkerExit(w)
    \/ Collect
    \/ CollectEnd

PipeSpec == PipeInit /\ [][PipeNext]_vars

(***************************************************************************)
(* C5: when the output channel has drained, bit bid of the bitset of       *)
(* commit index c is set exactly when c is among lookup_idx of blob bid;   *)
(* every blob index was resolved exactly once; so the table is the same    *)
(* whatever the order of arrival.                                          *)
(***************************************************************************)
C5_TableIsLookup ==
    mpc = "done" =>
        /\ \A c \in 1..len(graph) : \A bid \in 0..(Len(blobs) - 1) :
              bid \in commit_indices_to_blobs[c].bits
                  <=> (c - 1) \in Range(lookup_idx(graph, blobs[bid + 1]))
        /\ \A c \in 1..len(graph) :
              commit_indices_to_blobs[c].bits \subseteq 0..(Len(blobs) - 1)
        /\ Len(collected) = Len(blobs)
        /\ \A bid \in 0..(Len(blobs) - 1) :
              Cardinality({p \in 1..Len(collected) : collected[p] = bid}) = 1

\* two workers, results received out of input order, a commit holding two
\* of the blobs
C5_Witness ==
    /\ mpc = "done"
    /\ pthreads = 2
    /\ \E p \in 1..(Len(collected) - 1) : collected[p] > collected[p + 1]
    /\ \E c \in 1..len(graph) : Cardinality(commit_indices_to_blobs[c].bits) >= 2
    /\ \E c \in 1..len(graph) : \E d \in 1..len(graph) :
          commit_indices_to_blobs[c].bits # commit_indices_to_blobs[d].bits
          /\ commit_indices_to_blobs[c].len > 0 /\ commit_indices_to_blobs[d].len > 0

(***************************************************************************)
(* deplete_requests_from_stdin (cli.rs).  A digest is written as           *)
(* OidHexLen hexadecimal digits (40 in the program).  A line of standard   *)
(* input is [ok, text]: ok is FALSE for a line lines() fails to read.      *)
(***************************************************************************)
MaxLines == 3
OidHexLen == 2

HexDigits == <<"0", "1", "2", "3", "4", "5", "6", "7",
               "8", "9", "a", "b", "c", "d", "e", "f">>

IsHexDigit(ch) == \E v \in 1..16 : HexDigits[v] = ch
HexValue(ch) == (CHOOSE v \in 1..16 : HexDigits[v] = ch) - 1

\* Display for Oid
RECURSIVE to_hex_digits(_, _)
to_hex_digits(oid, n) ==
    IF n = 0 THEN <<>>
    ELSE Append(to_hex_digits(oid \div 16, n - 1), HexDigits[(oid % 16) + 1])

to_hex(oid) == to_hex_digits(oid, OidHexLen)

\* Oid::from_str: at most OidHexLen hexadecimal digits, a shorter string is
\* padded with zeros on the right; anything else is an error
RECURSIVE hex_value(_, _)
hex_value(text, n) ==
    IF n = 0 THEN 0
    ELSE 16 * hex_value(text, n - 1) + (IF n <= Len(text) THEN HexValue(text[n]) ELSE 0)

from_str(text) ==
    IF Len(text) >= 1 /\ Len(text) <= OidHexLen
       /\ \A p \in 1..Len(text) : IsHexDigit(text[p])
    THEN [ok |-> TRUE, oid |-> hex_value(text, OidHexLen)]
    ELSE [ok |-> FALSE, oid |-> 0]

\* a faulty format_commits: a space after every digest
RECURSIVE format_with_trailing_space(_, _, _)
format_with_trailing_space(commit_oids, cid, obuf) ==
    IF cid >= Len(commit_oids) THEN obuf
    ELSE format_with_trailing_space(commit_oids, cid + 1,
                                    obuf \o to_hex(commit_oids[cid + 1]) \o <<" ">>)

\* the loop over commits.iter().enumerate() that fills obuf, from cid on
RECURSIVE format_commits_from(_, _, _)
format_commits_from(commit_oids, cid, obuf) ==
    IF cid >= Len(commit_oids) THEN obuf
    ELSE format_commits_from(commit_oids, cid + 1,
             obuf \o to_hex(commit_oids[cid + 1])
                  \o (IF cid + 1 < Len(commit_oids) THEN <<" ">> ELSE <<>>))

InputLines ==
    {[ok |-> TRUE, text |-> to_hex(oid)] : oid \in QueryOids}
    \cup {[ok |-> TRUE, text |-> <<"z", "z">>], [ok |-> FALSE, text |-> <<>>]}

StreamInit ==
    /\ SrcIdle
    /\ ParIdle
    /\ OptIdle
    /\ BldIdle
    /\ ApiIdle
    /\ PipeIdle
    /\ CacheIdle
    /\ CompactIdle
    /\ graph \in SampleGraphs
    /\ sin \in SeqsUpTo(InputLines, MaxLines)
    /\ spos = 1
    /\ spc = "read"
    /\ hexsha = <<>>
    /\ sbuf = <<>>
    /\ sout = <<>>
    /\ num_blobs = 0
    /\ stotal = 0

notStream == <<buildVars, optVars, bldVars, apiVars, graph, pipeVars, cacheVars,
    cmpVars>>

\* the places from spos on of the lines lines() reads
ReadableFrom(p) == {q \in p..Len(sin) : sin[q].ok}

\* read.lines().filter_map(Result::ok).next(): lines that fail to read are
\* dropped; the loop ends at the end of input
StreamRead ==
    /\ spc = "read"
    /\ IF ReadableFrom(spos) = {}
       THEN /\ spc' = "done"
            /\ spos' = Len(sin) + 1
            /\ UNCHANGED hexsha
       ELSE LET q == CHOOSE r \in ReadableFrom(spos) : \A t \in ReadableFrom(spos) : r <= t
            IN /\ hexsha' = sin[q].text
               /\ spos' = q + 1
               /\ spc' = "line"
    /\ UNCHANGED <<sin, sbuf, sout, num_blobs, stotal, notStream>>

\* Oid::from_str(&hexsha)?, graph.lookup, the line is put together and
\* written
StreamAnswer ==
    /\ spc = "line"
    /\ num_blobs' = num_blobs + 1
    /\ LET parsed == from_str(hexsha)
       IN IF ~parsed.ok
          THEN /\ spc' = "failed"
               /\ UNCHANGED <<sbuf, stotal>>
          ELSE LET found == lookup(graph, parsed.oid)
               IN /\ stotal' = stotal + Len(found)
                  /\ sbuf' = Append(sbuf, format_commits_from(found, 0, <<>>))
                  /\ spc' = "flush"
    /\ UNCHANGED <<sin, spos, hexsha, sout, notStream>>

\* out.flush()?
StreamFlush ==
    /\ spc = "flush"
    /\ sout' = sout \o sbuf
    /\ sbuf' = <<>>
    /\ spc' = "read"
    /\ UNCHANGED <<sin, spos, hexsha, num_blobs, stotal, notStream>>

StreamNext ==
    \/ StreamRead
    \/ StreamAnswer
    \/ StreamFlush

StreamSpec == StreamInit /\ [][StreamNext]_vars

\* the digests an output line names: its text cut at the spaces
RECURSIVE SplitAtSpaces(_, _, _)
SplitAtSpaces(text, word, words) ==
    IF text = <<>> THEN Append(words, word)
    ELSE IF Head(text) = " " THEN SplitAtSpaces(Tail(text), <<>>, Append(words, word))
    ELSE SplitAtSpaces(Tail(text), Append(word, Head(text)), words)

\* line is the digests of ids, hex-encoded and separated by single spaces
IsLineOf(line, ids) ==
    IF ids = <<>> THEN line = <<>>
    ELSE LET words == SplitAtSpaces(line, <<>>, <<>>)
         IN /\ Len(words) = Len(ids)
            /\ \A p \in 1..Len(ids) :
                  /\ Len(words[p]) = OidHexLen
                  /\ from_str(words[p]) = [ok |-> TRUE, oid |-> ids[p]]

\* the commits of the graph from whose root tree oid is reachable
MatchingCommits(oid) ==
    IF oid \notin DOMAIN graph.M THEN {}
    ELSE {graph.V[i] : i \in {j \in 1..Len(graph.V) :
                                 /\ graph.E[j] = <<>>
                                 /\ (j - 1) \in Range(lookup_idx(graph, oid))}}

(***************************************************************************)
(* C6, as claimed: one output line per input line, the k-th the answer to  *)
(* the k-th input line, each flushed before the next input line is read;   *)
(* an output line is empty exactly when the query matches no commit.       *)
(***************************************************************************)
C6_OneLinePerInputLine ==
    /\ spc = "read" => (Len(sout) = spos - 1 /\ sbuf = <<>>)
    /\ spc \in {"done", "failed"} => Len(sout) = Len(sin)
    /\ \A k \in 1..Len(sout) :
          /\ sin[k].ok
          /\ from_str(sin[k].text).ok
          /\ IsLineOf(sout[k], lookup(graph, from_str(sin[k].text).oid))
          /\ sout[k] = <<>> <=> MatchingCommits(from_str(sin[k].text).oid) = {}

\* the lines of s that lines() reads, in order
RECURSIVE ReadLines(_)
ReadLines(s) ==
    IF s = <<>> THEN <<>>
    ELSE IF Head(s).ok THEN <<Head(s).text>> \o ReadLines(Tail(s))
    ELSE ReadLines(Tail(s))

\* the lines of s before the first that is not a hexadecimal digest
RECURSIVE ValidPrefix(_)
ValidPrefix(s) ==
    IF s = <<>> \/ ~from_str(Head(s)).ok THEN <<>>
    ELSE <<Head(s)>> \o ValidPrefix(Tail(s))

(***************************************************************************)
(* C6 as amended: the process writes one output line for every input line  *)
(* that is read successfully and comes before the first line that is not a *)
(* hexadecimal digest, in input order, each flushed before the next line   *)
(* is read; a line that fails to be read is skipped without output, and    *)
(* nothing is written from the first invalid line on; an output line is    *)
(* empty exactly when the query matches no commit.                         *)
(***************************************************************************)
C6_OneLinePerValidLine ==
    LET read == ReadLines(SubSeq(sin, 1, spos - 1))
        all == ReadLines(sin)
    IN /\ spc = "read" => (Len(sout) = Len(read) /\ sbuf = <<>>)
       /\ spc = "line" => (Len(sout) = Len(read) - 1 /\ sbuf = <<>>)
       /\ spc = "flush" => (Len(sout) = Len(read) - 1 /\ Len(sbuf) = 1)
       /\ spc = "done" => (spos = Len(sin) + 1 /\ Len(sout) = Len(all))
       /\ spc = "failed" =>
             /\ Len(sout) = Len(ValidPrefix(all))
             /\ Len(sout) = Len(read) - 1
       /\ Len(sout) <= Len(ValidPrefix(all))
       /\ \A k \in 1..Len(sout) :
             /\ IsLineOf(sout[k], lookup(graph, from_str(all[k]).oid))
             /\ sout[k] = <<>> <=> MatchingCommits(from_str(all[k]).oid) = {}

\* three lines were answered: one with two commits, one with none
C6_Witness ==
    /\ spc = "done"
    /\ Len(sout) = 3
    /\ \E k \in 1..3 : sout[k] = <<>>
    /\ \E k \in 1..3 : Len(sout[k]) = 2 * OidHexLen + 1

(***************************************************************************)
(* run (cli.rs): with a cache path, the graph is loaded when the file      *)
(* exists; otherwise it is built, the file is opened with create and       *)
(* write, and save streams the graph into it.  The stream is header, V     *)
(* with its length, then every parent list with its length (spec 4.E); a   *)
(* process may be interrupted at any point and run again.                  *)
(***************************************************************************)
MaxRuns == 2
NoFile == <<-1>>
Magic == 71
FormatVersion == 1

RECURSIVE serialize_edges(_)
serialize_edges(E) ==
    IF E = <<>> THEN <<>>
    ELSE <<Len(Head(E))>> \o Head(E) \o serialize_edges(Tail(E))

serialize(g) == <<Magic, FormatVersion, Len(g.V)>> \o g.V \o serialize_edges(g.E)

\* the parent lists of n vertices read from words; ok is FALSE when the
\* words end early
RECURSIVE deserialize_edges(_, _, _)
deserialize_edges(words, n, E) ==
    IF n = 0 THEN [ok |-> words = <<>>, E |-> E]
    ELSE IF words = <<>> \/ Len(words) < 1 + Head(words) THEN [ok |-> FALSE, E |-> E]
    ELSE deserialize_edges(SubSeq(words, 2 + Head(words), Len(words)), n - 1,
                           Append(E, SubSeq(words, 2, 1 + Head(words))))

\* load: M is rebuilt from V
deserialize(words) ==
    IF Len(words) < 3 \/ words[1] # Magic \/ words[2] # FormatVersion
       \/ Len(words) < 3 + words[3]
    THEN [ok |-> FALSE, g |-> EmptyGraph]
    ELSE LET V == SubSeq(words, 4, 3 + words[3])
             r == deserialize_edges(SubSeq(words, 4 + words[3], Len(words)), words[3], <<>>)
         IN [ok |-> r.ok,
             g |-> [V |-> V, E |-> r.E,
                    M |-> [oid \in Range(V) |->
                             (CHOOSE i \in 1..Len(V) :
                                 V[i] = oid /\ \A j \in 1..Len(V) : V[j] = oid => j <= i) - 1]]]

CacheInit ==
    /\ SrcIdle
    /\ ParIdle
    /\ OptIdle
    /\ BldIdle
    /\ ApiIdle
    /\ PipeIdle
    /\ StreamIdle
    /\ CompactIdle
    /\ graph \in SampleGraphs
    /\ cache_path \in BOOLEAN
    /\ cache_file = NoFile
    /\ cpc = "start"
    /\ cmem = EmptyGraph
    /\ cser = <<>>
    /\ cruns = 1

notCache == <<buildVars, optVars, bldVars, apiVars, graph, pipeVars, streamVars,
    cmpVars>>

\* match &opts.cache_path: load when metadata(cache_path).is_ok(), else build
RunStart ==
    /\ cpc = "start"
    /\ IF cache_path /\ cache_file # NoFile
       THEN LET r == deserialize(cache_file)
            IN IF r.ok
               THEN cmem' = r.g /\ cpc' = "ready"
               ELSE cmem' = cmem /\ cpc' = "load_failed"
       ELSE /\ cmem' = graph
            /\ cpc' = IF cache_path THEN "built" ELSE "ready"
    /\ UNCHANGED <<cache_path, cache_file, cser, cruns, notCache>>

\* OpenOptions::new().create(true).write(true).open(&cache_path)
SaveOpen ==
    /\ cpc = "built"
    /\ cache_file' = <<>>
    /\ cser' = serialize(cmem)
    /\ cpc' = "saving"
    /\ UNCHANGED <<cache_path, cmem, cruns, notCache>>

\* save: the next words of the stream reach the file
SaveWrite ==
    /\ cpc = "saving"
    /\ Len(cache_file) < Len(cser)
    /\ \E n \in (Len(cache_file) + 1)..Len(cser) : cache_file' = SubSeq(cser, 1, n)
    /\ UNCHANGED <<cache_path, cpc, cmem, cser, cruns, notCache>>

\* save returns the graph; into_memory
SaveDone ==
    /\ cpc = "saving"
    /\ Len(cache_file) = Len(cser)
    /\ cpc' = "ready"
    /\ UNCHANGED <<cache_path, cache_file, cmem, cser, cruns, notCache>>

\* the process is interrupted and run again; the file stays as it is
Interrupt ==
    /\ cpc \in {"start", "built", "saving"}
    /\ cruns < MaxRuns
    /\ cruns' = cruns + 1
    /\ cpc' = "start"
    /\ cmem' = EmptyGraph
    /\ cser' = <<>>
    /\ UNCHANGED <<cache_path, cache_file, notCache>>

\* a run that has ended is followed by another
RunAgain ==
    /\ cpc \in {"ready", "load_failed"}
    /\ cruns < MaxRuns
    /\ cruns' = cruns + 1
    /\ cpc' = "start"
    /\ cmem' = EmptyGraph
    /\ cser' = <<>>
    /\ UNCHANGED <<cache_path, cache_file, notCache>>

CacheNext ==
    \/ RunStart
    \/ SaveOpen
    \/ SaveWrite
    \/ SaveDone
    \/ Interrupt
    \/ RunAgain

CacheSpec == CacheInit /\ [][CacheNext]_vars

(***************************************************************************)
(* C7: the save is atomic: the cache path never holds a partly written     *)
(* file, so a run that finds the file loads the graph that was built.      *)
(***************************************************************************)
C7_CacheFileNeverPartial ==
    /\ cache_file # NoFile => cache_file = serialize(graph)
    /\ cpc # "load_failed"
    /\ cpc = "ready" => cmem = graph

\* what holds of the cache: a run that ends ready holds the built graph
ReadyRunHoldsBuiltGraph == cpc = "ready" => cmem = graph

\* the places of the lines of standard input that are in error: not read, or
\* read and not a hexadecimal digest
ErrorLines == {k \in 1..Len(sin) : ~sin[k].ok \/ ~from_str(sin[k].text).ok}

\* the number of lines before the first line in error
LinesBeforeFirstError ==
    IF ErrorLines = {} THEN Len(sin)
    ELSE (CHOOSE k \in ErrorLines : \A j \in ErrorLines : k <= j) - 1

(***************************************************************************)
(* C11: an error of the query stream, a line that is no hexadecimal digest *)
(* or a line that fails to be read, is fatal: the loop ends in error,      *)
(* nothing is written for the line in error nor for any line after it; a   *)
(* digest that the index does not hold is no error and is answered by an   *)
(* empty line.                                                             *)
(***************************************************************************)
C11_StreamErrorsAreFatal ==
    /\ Len(sout) + Len(sbuf) <= LinesBeforeFirstError
    /\ spc = "done" => ErrorLines = {}
    /\ \A k \in 1..Len(sout) :
          (sin[k].ok /\ from_str(sin[k].text) = [ok |-> TRUE, oid |-> UnknownOid])
              => sout[k] = <<>>

\* what the code keeps of C11: a line that is read and is no hexadecimal
\* digest ends the loop in error, with no line written for it or after it;
\* a digest the index does not hold is answered by an empty line
InvalidHexIsFatal ==
    LET all == ReadLines(sin)
    IN /\ Len(sout) + Len(sbuf) <= Len(ValidPrefix(all))
       /\ spc = "done" => Len(ValidPrefix(all)) = Len(all)
       /\ \A k \in 1..Len(sout) :
             from_str(all[k]).oid = UnknownOid => sout[k] = <<>>

\* the graph and the capsule table of chunk i as one worker builds them, with
\* compaction skipped
PlainGraphOfChunk(i) ==
    sequential_build2(root, entries, chunks[i], [g |-> EmptyGraph, refs |-> 0]).g

PlainLutOfChunk(i) ==
    sequential_build(root, entries, chunks[i], [lut |-> EmptyLut, refs |-> 0]).lut

(***************************************************************************)
(* C12: compaction changes no answer: for every graph the build returns    *)
(* and every query digest, the lookup on the compacted graph returns the   *)
(* commit digests that the lookup on the same graph built with compaction  *)
(* skipped returns.                                                        *)
(***************************************************************************)
C12_CompactionKeepsAnswers ==
    bpc = "ready" =>
        \A i \in 1..Len(chunks) : \A q \in Oids \cup {UnknownOid} :
            IF mode = "build2"
            THEN lookup(graphs[i], q) = lookup(PlainGraphOfChunk(i), q)
            ELSE LET plain == PlainLutOfChunk(i)
                     compacted == IF no_compact THEN compact_memory(luts[i]) ELSE luts[i]
                     a == lookup_oid(q, compacted, all_oids_of(compacted), NoResult)
                     b == lookup_oid(q, plain, all_oids_of(plain), NoResult)
                 IN /\ no_compact => luts[i] = plain
                    /\ a.out = b.out
                    /\ ~a.unreachable
                    /\ ~b.unreachable

\* a compacted table answers a blob that has two parents with a commit
C12_Witness ==
    /\ bpc = "ready"
    /\ mode = "build"
    /\ ~no_compact
    /\ \E i \in 1..Len(luts) : \E b \in BlobOids :
          /\ b \in DOMAIN luts[i]
          /\ luts[i][b].tag = "Compact"
          /\ Len(luts[i][b].parents) >= 2
          /\ lookup_oid(b, luts[i], all_oids_of(luts[i]), NoResult).out # <<>>

(***************************************************************************)
(* Compaction applied again.  A build of one worker with compaction        *)
(* skipped returns its graph (build2) or its capsule table (build);        *)
(* ReverseGraph::compact or compact_memory is then applied to it, time     *)
(* after time.                                                             *)
(***************************************************************************)
MaxCompactions == 2

CompactInit ==
    /\ commits \in CommitLists \ {<<>>}
    /\ root \in [CommitOids -> TreeOids \cup {NoTree}]
    /\ \A c \in CommitOids \ Range(commits) : root[c] = NoTree
    /\ entries \in Repositories
    /\ \A t \in TreeOids \ ReachableTrees(root, entries) : entries[t] = <<>>
    /\ num_threads = 1
    /\ no_compact = TRUE
    /\ mode \in {"build", "build2"}
    /\ bpc = "ready"
    /\ chunks = <<commits>>
    /\ wpos = <<Len(commits) + 1>>
    /\ wstate = <<IF mode = "build2" THEN PlainGraphOfChunk(1) ELSE EmptyGraph>>
    /\ wlut = <<IF mode = "build" THEN PlainLutOfChunk(1) ELSE EmptyLut>>
    /\ wedges = <<IF mode = "build2"
                  THEN sequential_build2(root, entries, commits,
                                         [g |-> EmptyGraph, refs |-> 0]).refs
                  ELSE sequential_build(root, entries, commits,
                                        [lut |-> EmptyLut, refs |-> 0]).refs>>
    /\ wdone = <<TRUE>>
    /\ joined = <<[chunk_idx |-> 0, state |-> wstate[1], lut |-> wlut[1]]>>
    /\ edges_total = wedges[1]
    /\ graphs = IF mode = "build2" THEN wstate ELSE <<>>
    /\ luts = IF mode = "build" THEN wlut ELSE <<>>
    /\ compactions = 0
    /\ once = [graphs |-> <<>>, luts |-> <<>>]
    /\ OptIdle
    /\ BldIdle
    /\ ApiIdle
    /\ GraphIdle
    /\ PipeIdle
    /\ StreamIdle
    /\ CacheIdle

\* state.compact(&progress) on every graph, compact_memory(&mut lut, ..) on
\* every capsule table
CompactAgain ==
    /\ compactions < MaxCompactions
    /\ graphs' = [i \in 1..Len(graphs) |-> compact(graphs[i])]
    /\ luts' = [i \in 1..Len(luts) |-> compact_memory(luts[i])]
    /\ compactions' = compactions + 1
    /\ once' = IF compactions = 0 THEN [graphs |-> graphs', luts |-> luts'] ELSE once
    /\ UNCHANGED <<root, entries, commits, num_threads, no_compact, mode, bpc, chunks,
                   wpos, wstate, wlut, wedges, wdone, joined, edges_total>>
    /\ UNCHANGED <<optVars, bldVars, apiVars, graph, pipeVars, streamVars, cacheVars>>

CompactNext == CompactAgain

CompactSpec == CompactInit /\ [][CompactNext]_vars

(***************************************************************************)
(* C13: compaction is idempotent: applied twice, ReverseGraph::compact and *)
(* compact_memory leave the vertices, the parent lists and the answers of  *)
(* every lookup as they are after the first application.                   *)
(***************************************************************************)
C13_CompactIsIdempotent ==
    compactions >= 2 =>
        /\ graphs = once.graphs
        /\ luts = once.luts
        /\ \A i \in 1..Len(luts) : \A q \in Oids \cup {UnknownOid} :
              lookup_oid(q, luts[i], all_oids_of(luts[i]), NoResult)
              = lookup_oid(q, once.luts[i], all_oids_of(once.luts[i]), NoResult)
        /\ \A i \in 1..Len(graphs) : \A q \in Oids \cup {UnknownOid} :
              lookup(graphs[i], q) = lookup(once.graphs[i], q)

\* what the code keeps of C13: ReverseGraph::compact is idempotent, and
\* compact_memory keeps the keys of the table
GraphCompactIsIdempotent ==
    compactions >= 2 =>
        /\ graphs = once.graphs
        /\ \A i \in 1..Len(luts) : DOMAIN luts[i] = DOMAIN once.luts[i]

\* optimize_topology runs in one thread: a pass that can be made is made
OptFairSpec == OptInit /\ [][OptNext]_vars /\ WF_vars(OptNext)

RECURSIVE SeqMax(_)
SeqMax(s) ==
    IF s = <<>> THEN 0
    ELSE LET m == SeqMax(Tail(s)) IN IF Head(s) > m THEN Head(s) ELSE m

RECURSIVE SeqSum(_)
SeqSum(s) == IF s = <<>> THEN 0 ELSE Head(s) + SeqSum(Tail(s))

\* the number of vertices of the longest chain from vertex v up to a vertex
\* without parents
RECURSIVE ChainLen(_, _)
ChainLen(g, v) ==
    1 + SeqMax([p \in 1..Len(g.E[v + 1]) |-> ChainLen(g, g.E[v + 1][p])])

LongestChain(g) == SeqMax([i \in 1..Len(g.V) |-> ChainLen(g, i - 1)])

TotalChain(g) == SeqSum([i \in 1..Len(g.V) |-> ChainLen(g, i - 1)])

\* a pass that halts leaves the graph as it is, a pass that does not halt
\* shortens a chain
PassShortensOrHalts ==
    [][\A i \in 1..Len(optg) :
          optpasses'[i] # optpasses[i] =>
             IF optdone'[i]
             THEN optg'[i] = optg[i]
             ELSE TotalChain(optg'[i]) < TotalChain(optg[i])]_vars

\* in the end the pass that removes nothing is made
EveryGraphHalts == <>(\A i \in 1..Len(optg) : optdone[i])

\* the passes over graph i that removed an edge
RemovingPasses(i) == optpasses[i] - (IF optdone[i] THEN 1 ELSE 0)

\* the number of edges of the longest chain of g
LongestChainEdges(g) == IF LongestChain(g) = 0 THEN 0 ELSE LongestChain(g) - 1

(***************************************************************************)
(* C14, as claimed: optimize_topology terminates on every graph the        *)
(* Builder produces: a pass that does not halt removes an edge, the pass   *)
(* that removes nothing is made in the end, and the passes made, all of    *)
(* them, are at most as many as the longest chain of the graph before      *)
(* optimization is long (counted in vertices, the longer of the two ways   *)
(* to count it).                                                           *)
(***************************************************************************)
C14_PassesWithinLongestChain ==
    /\ [](\A i \in 1..Len(optg) : optpasses[i] <= LongestChain(graphs[i]))
    /\ PassShortensOrHalts
    /\ EveryGraphHalts

(***************************************************************************)
(* C14 as amended: optimize_topology terminates on every graph the Builder *)
(* produces: a pass that does not halt shortens a chain, the pass that     *)
(* removes nothing is made in the end, and the passes that remove an edge  *)
(* are at most as many as the edges of the longest chain of the graph      *)
(* before optimization; the halting pass comes on top of them.             *)
(***************************************************************************)
C14_OptimizeTerminates ==
    /\ [](\A i \in 1..Len(optg) : RemovingPasses(i) <= LongestChainEdges(graphs[i]))
    /\ PassShortensOrHalts
    /\ EveryGraphHalts

\* under the documented rule a chain of four vertices was collapsed by one
\* pass, and the second pass halted
C14_Witness ==
    \E i \in 1..Len(optg) :
        /\ opt_rule = "le1"
        /\ optdone[i]
        /\ optpasses[i] = 2
        /\ LongestChain(graphs[i]) = 4
        /\ LongestChain(optg[i]) < 4

(***************************************************************************)
(* The pipeline under fair scheduling: the main thread, the producer and   *)
(* every worker are threads of their own, and a thread that can take a     *)
(* step for good takes it.                                                 *)
(***************************************************************************)
MainStep ==
    \/ MainSpawnProducer
    \/ MainSpawnWorker
    \/ MainEndBlock
    \/ Collect
    \/ CollectEnd

ProducerStep ==
    \/ ProducerSend
    \/ ProducerExit

WorkerStep(w) ==
    \/ WorkerRecv(w)
    \/ WorkerSend(w)
    \/ WorkerExit(w)

PipeFairSpec ==
    /\ PipeInit
    /\ [][PipeNext]_vars
    /\ WF_vars(MainStep)
    /\ WF_vars(ProducerStep)
    /\ \A w \in 1..MaxPipeThreads : WF_vars(w <= pthreads /\ WorkerStep(w))

\* the producer has sent every pair and dropped `is`, every worker has
\* ended, both channels are empty, the collector's loop has ended and the
\* scope has no thread left to join
PipeFinished ==
    /\ prod.pc = "exited"
    /\ prod.next = Len(blobs) + 1
    /\ \A w \in 1..pthreads : wk[w].pc = "exited"
    /\ chan_in = <<>>
    /\ chan_out = <<>>
    /\ Len(collected) = Len(blobs)
    /\ mpc = "done"

(***************************************************************************)
(* C15: under fair scheduling the pipeline terminates, for every blob list *)
(* and every number of workers: the producer sends every pair and closes   *)
(* the input channel, every worker ends, the output channel closes, the    *)
(* collector's loop and the scope end, and it stays so.                    *)
(***************************************************************************)
C15_PipelineTerminates == <>[]PipeFinished

\* the pipeline has ended after two workers resolved more blobs than a
\* channel holds, so that a send had to wait
C15_Witness ==
    /\ PipeFinished
    /\ pthreads = 2
    /\ Len(blobs) = MaxBlobs
    /\ total_commits > 0

\* every capsule of the table is in the state tag
AllCapsules(lut, tag) == \A oid \in DOMAIN lut : lut[oid].tag = tag

\* every parent a capsule stores is an entry of the table: a digest that is a
\* key, or an index into the keys in order
ParentsResolve(lut) ==
    \A oid \in DOMAIN lut : \A p \in 1..Len(lut[oid].parents) :
        IF lut[oid].tag = "Normal"
        THEN lut[oid].parents[p] \in DOMAIN lut
        ELSE /\ lut[oid].parents[p] >= 0
             /\ lut[oid].parents[p] < Len(all_oids_of(lut))

(***************************************************************************)
(* C16: the two states of a parent list are never mixed and no parent      *)
(* dangles: in every capsule table build returns, all capsules are Normal  *)
(* (compaction skipped) or all are Compact (compacted), every parent       *)
(* stored resolves to an entry of the same table, and lookup_oid enters    *)
(* none of its unreachable!() arms, whatever digest is asked for.          *)
(***************************************************************************)
C16_CapsuleStatesNeverMixed ==
    (bpc = "ready" /\ mode = "build") =>
        \A i \in 1..Len(luts) :
            /\ AllCapsules(luts[i], IF no_compact THEN "Normal" ELSE "Compact")
            /\ ParentsResolve(luts[i])
            /\ \A q \in Oids \cup {UnknownOid} :
                  ~lookup_oid(q, luts[i], all_oids_of(luts[i]), NoResult).unreachable

\* a compacted table of two chunks' build holds a capsule with two parent
\* indices and a capsule without parents, and answers a query
C16_Witness ==
    /\ bpc = "ready"
    /\ mode = "build"
    /\ ~no_compact
    /\ Len(luts) = 2
    /\ \E i \in 1..Len(luts) :
          /\ \E oid \in DOMAIN luts[i] : Len(luts[i][oid].parents) >= 2
          /\ \E oid \in DOMAIN luts[i] : luts[i][oid].parents = <<>>
          /\ \E q \in TreeOids :
                lookup_oid(q, luts[i], all_oids_of(luts[i]), NoResult).out # <<>>

=============================================================================
